---- MODULE Spec2Model ----
(***************************************************************************)
(* Planning core of FocusForge: the schedulers of planner/schedulers.py,   *)
(* the planners of planner/base_planner.py, the scores of                  *)
(* planner/priority_strategy.py, generate_daily_plan of                    *)
(* planner/daily_plan.py and FocusSession of core/focus_session.py.        *)
(*                                                                         *)
(* Instants and durations are whole minutes.  A task is a record; its      *)
(* `name` is its position in the caller's list and stands for the identity *)
(* of the Python object.  `has_duration = FALSE` is a task whose duration  *)
(* attribute is missing or None.                                           *)
(***************************************************************************)
EXTENDS Integers, Sequences, FiniteSets

VARIABLES
    tasks,              \* the caller's task list
    day_start,          \* start of the planning window
    day_end,            \* end of the planning window
    scheduler,          \* the Scheduler object: kind, work_minutes, break_minutes
    planner,            \* the Planner object: kind, energy_level of its strategy
    sorted_tasks,       \* result of Planner._sort_tasks in generate()
    sched_tasks,        \* `tasks` argument of Scheduler.schedule
    pc,                 \* position of the running call
    i,                  \* index of `for task in tasks` (1-based)
    remaining_minutes,  \* PomodoroScheduler.schedule local
    current_start,      \* schedule() local
    blocks,             \* schedule() local, the list returned
    mode,               \* generate_daily_plan / get_planner argument, a string
    energy_level,       \* generate_daily_plan / get_planner argument
    start_hhmm,         \* generate_daily_plan `start` argument
    end_hhmm,           \* generate_daily_plan `end` argument
    recovery_interval,  \* keyword argument a caller passes to BalancedPlanner
    error,              \* exception that ended the call, "none" without one
    returned,           \* block lists returned by the earlier generate() calls
    strategy,           \* the PriorityStrategy whose score() is called directly
    scored,             \* the object handed to that score() call
    result,             \* what that score() call returned or raised
    session,            \* a FocusSession object
    checkins,           \* calls of habit.complete_today() made by the session
    clock,              \* datetime.now(), advancing with every call
    call                \* the last method called on the session

vars == <<tasks, day_start, day_end, scheduler, planner, sorted_tasks,
          sched_tasks, pc, i, remaining_minutes, current_start, blocks,
          mode, energy_level, start_hhmm, end_hhmm, recovery_interval, error,
          returned, strategy, scored, result, session, checkins, clock, call>>

-----------------------------------------------------------------------------
(* Bounds *)

MaxTasks == 3
MaxBlocks == 5
MaxPlanTasks == 3
MaxBalancedTasks == 6
MaxDailyTasks == 3
MaxPriorityTasks == 2
MaxDaysLeft == 2
MaxEnergyTasks == 2
MaxRepeatTasks == 2
MaxGenerateCalls == 2
MaxSessionCalls == 4
MaxLoopTasks == 1

(* Program constants *)

DefaultWorkMinutes == 25
DefaultBreakMinutes == 5
DefaultDifficulty == 3
RecoveryInterval == 2

\* scores are kept as integers: score * ScoreScale
ScoreScale == 1200

-----------------------------------------------------------------------------
(* Input domains *)

DurationValues == {-10, 0, 10, 25, 50}

DurationFields ==
    {[has_duration |-> TRUE, duration |-> d] : d \in DurationValues}
        \cup {[has_duration |-> FALSE, duration |-> 0]}

\* attributes a Task has when the caller gives only name and duration
DefaultAttributes ==
    [category |-> "none", difficulty |-> DefaultDifficulty,
     has_deadline |-> FALSE, days_left |-> 0, must_do_today |-> FALSE,
     completed |-> FALSE, pomodoro |-> FALSE]

\* days_left is deadline - today in days
Task(n, f, a) ==
    [name |-> n, has_duration |-> f.has_duration, duration |-> f.duration,
     category |-> a.category, difficulty |-> a.difficulty,
     has_deadline |-> a.has_deadline, days_left |-> a.days_left,
     must_do_today |-> a.must_do_today,
     completed |-> a.completed, pomodoro |-> a.pomodoro]

\* the list of n tasks with the duration fields fs[1..n]
TaskList(n, fs) == [k \in 1..n |-> Task(k, fs[k], DefaultAttributes)]

PlanDurationFields ==
    {[has_duration |-> TRUE, duration |-> d] : d \in {0, 50}}

PlanAttributes ==
    {[category |-> c, difficulty |-> df, has_deadline |-> dl, days_left |-> 0,
      must_do_today |-> FALSE, completed |-> FALSE, pomodoro |-> FALSE] :
        c \in {"study", "recovery"}, df \in {1, 5}, dl \in BOOLEAN}

PlanTaskList(n, fs, ats) == [k \in 1..n |-> Task(k, fs[k], ats[k])]

DayStarts == {0, 20}
DayEnds == {0, 30, 60, 80}

WorkMinutesValues == {DefaultWorkMinutes, 10, 0, -10}
BreakMinutesValues == {DefaultBreakMinutes, 0, -5}

SequentialScheduler ==
    [kind |-> "sequential", work_minutes |-> 0, break_minutes |-> 0]

PomodoroScheduler(work, brk) ==
    [kind |-> "pomodoro", work_minutes |-> work, break_minutes |-> brk]

Schedulers ==
    {SequentialScheduler}
        \cup {PomodoroScheduler(w, b) :
                w \in WorkMinutesValues, b \in BreakMinutesValues}

Max(a, b) == IF a >= b THEN a ELSE b

Min(a, b) == IF a <= b THEN a ELSE b

\* the scheduler is called by the caller itself, without a planner
NoPlanner == [kind |-> "none", energy_level |-> DefaultDifficulty]

StudyPlanner == [kind |-> "study", energy_level |-> DefaultDifficulty]

EnergyPlanner_Unclamped(level) == [kind |-> "energy", energy_level |-> level]

\* EnergyAwarePriority.__init__: self.energy_level = max(1, min(5, energy_level))
EnergyPlanner(level) ==
    [kind |-> "energy", energy_level |-> Max(1, Min(5, level))]

BalancedPlanner == [kind |-> "balanced", energy_level |-> DefaultDifficulty]

EnergyLevels == {1, 5}

\* planner with the scheduler it was built with
PlannerConfigs ==
    {<<StudyPlanner, SequentialScheduler>>,
     <<StudyPlanner, PomodoroScheduler(DefaultWorkMinutes, DefaultBreakMinutes)>>,
     <<BalancedPlanner, SequentialScheduler>>,
     <<BalancedPlanner, PomodoroScheduler(DefaultWorkMinutes, DefaultBreakMinutes)>>}
        \cup {<<EnergyPlanner(e), SequentialScheduler>> : e \in EnergyLevels}

PlanDayEnds == {60, 120}

\* tasks given to a BalancedPlanner: regular ones of three difficulties, one
\* of them of zero length, and recovery ones of two difficulties
BalancedProfiles ==
    {[category |-> "study", difficulty |-> 5, duration |-> 10],
     [category |-> "study", difficulty |-> 3, duration |-> 10],
     [category |-> "study", difficulty |-> 1, duration |-> 0],
     [category |-> "recovery", difficulty |-> 1, duration |-> 10],
     [category |-> "recovery", difficulty |-> 5, duration |-> 10]}

BalancedTaskList(n, ps) ==
    [k \in 1..n |->
        Task(k, [has_duration |-> TRUE, duration |-> ps[k].duration],
             [DefaultAttributes EXCEPT !.category = ps[k].category,
                                       !.difficulty = ps[k].difficulty])]

\* recovery_interval keyword arguments tried on BalancedPlanner(...)
RecoveryIntervalArgs ==
    {[given |-> FALSE, value |-> 0]}
        \cup {[given |-> TRUE, value |-> v] : v \in {-3, 1}}

BalancedDayEnd == 25

\* tasks given to generate_daily_plan, all of category "study"
DailyProfiles ==
    {[duration |-> 0, completed |-> FALSE, pomodoro |-> FALSE],
     [duration |-> 20, completed |-> TRUE, pomodoro |-> FALSE],
     [duration |-> 20, completed |-> FALSE, pomodoro |-> FALSE],
     [duration |-> 50, completed |-> TRUE, pomodoro |-> FALSE],
     [duration |-> 50, completed |-> FALSE, pomodoro |-> FALSE],
     [duration |-> 50, completed |-> FALSE, pomodoro |-> TRUE]}

DailyTaskList(n, ps) ==
    [k \in 1..n |->
        Task(k, [has_duration |-> TRUE, duration |-> ps[k].duration],
             [DefaultAttributes EXCEPT !.category = "study",
                                       !.completed = ps[k].completed,
                                       !.pomodoro = ps[k].pomodoro])]

\* (deadline - today).days of the tasks that have a deadline
DaysLeftValues == -2..MaxDaysLeft

Deadlines ==
    {[has_deadline |-> FALSE, days_left |-> 0]}
        \cup {[has_deadline |-> TRUE, days_left |-> d] : d \in DaysLeftValues}

\* study tasks that differ in deadline, difficulty and duration
PriorityProfiles ==
    {[deadline |-> dl, difficulty |-> df, duration |-> d] :
        dl \in Deadlines, df \in {1, 5}, d \in {0, 20}}

PriorityTaskList(n, ps) ==
    [k \in 1..n |->
        Task(k, [has_duration |-> TRUE, duration |-> ps[k].duration],
             [DefaultAttributes EXCEPT !.category = "study",
                                       !.difficulty = ps[k].difficulty,
                                       !.has_deadline = ps[k].deadline.has_deadline,
                                       !.days_left = ps[k].deadline.days_left])]

PriorityDayEnd == 30

\* energy_level as the caller passes it to EnergyPlanner
EnergyArgs == {0, 1, 2, 5, 10}

\* study tasks for EnergyPlanner: difficulty in and out of 1..5, no
\* deadline, due today, due in two days
EnergyProfiles ==
    {[deadline |-> dl, difficulty |-> df, duration |-> d] :
        dl \in {[has_deadline |-> FALSE, days_left |-> 0],
                [has_deadline |-> TRUE, days_left |-> 0],
                [has_deadline |-> TRUE, days_left |-> 2]},
        df \in {-1, 0, 1, 2, 5, 7},
        d \in {0, 20}}

\* a string is the sequence of its characters
STUDY == <<"s", "t", "u", "d", "y">>
ENERGY == <<"e", "n", "e", "r", "g", "y">>
BALANCED == <<"b", "a", "l", "a", "n", "c", "e", "d">>

Modes ==
    {STUDY, ENERGY, BALANCED,
     <<"S", "t", "u", "d", "y">>,
     <<"E", "N", "E", "R", "G", "Y">>,
     <<"b", "a", "l", "a", "n", "c", "e", "D">>,
     <<"u", "n", "k", "n", "o", "w", "n">>,
     <<"s", "t", "u", "d", "y", "x">>,
     <<>>}

\* HH:MM arguments as <<HH, MM>>
StartTimes == {<<9, 0>>, <<10, 0>>}
EndTimes == {<<9, 0>>, <<10, 0>>, <<10, 30>>, <<24, 0>>}

-----------------------------------------------------------------------------
(* Helpers of schedule() *)

\* getattr(task, "duration", 0) or 0
DurationOf(task) ==
    IF task.has_duration /\ task.duration # 0 THEN task.duration ELSE 0

Skipped_ZeroKept(task) == DurationOf(task) < 0

\* `if duration_minutes <= 0: continue`
Skipped(task) == DurationOf(task) <= 0

NoRoom_StartOnly(start, end) == start > day_end

\* `if block_end > day_end`, `if break_end > day_end`: `end` is the end of
\* the candidate block or break that begins at `start`
NoRoom(start, end) == end > day_end

WorkBlockEnd_Remainder(start) ==
    start + Min(scheduler.work_minutes, remaining_minutes)

\* block_end = current_start + work_delta
WorkBlockEnd(start) == start + scheduler.work_minutes

BreakDue_WholeBlockLeft(remaining) == remaining > scheduler.work_minutes

\* `if remaining_minutes > 0` after the block was appended
BreakDue(remaining) == remaining > 0

BreakEnd_WorkDelta(block_end) == block_end + scheduler.work_minutes

\* break_end = current_start + break_delta
BreakEnd(block_end) == block_end + scheduler.break_minutes

PlannedBlock(task, start, end) == [task |-> task, start |-> start, end |-> end]

-----------------------------------------------------------------------------
\* a keyword argument that the caller did not pass
\* no generate() call has returned yet
FirstCall == returned = <<>>

\* a getattr(task, name, default) that finds nothing
Missing == [kind |-> "missing", value |-> 0]

NoResult == [raised |-> "none", value |-> 0]

\* attribute values of an object handed to score(): absent, None, an
\* integer, or a string that is no number
NoneValue == [kind |-> "none", value |-> 0]
IntValue(n) == [kind |-> "int", value |-> n]
TextValue(t) == [kind |-> "text", value |-> t]

DurationAttrs == {Missing, NoneValue, IntValue(0), IntValue(30), TextValue("soon")}
DifficultyAttrs == {Missing, NoneValue, IntValue(2), IntValue(5), TextValue("hard")}
PriorityAttrs == {Missing, NoneValue, IntValue(2), TextValue("high")}
CategoryAttrs == {Missing, NoneValue, TextValue("study")}

\* no score() call is made from outside a planner
NoScoreCall ==
    /\ strategy = "none"
    /\ scored = [duration |-> Missing, difficulty |-> Missing,
                 priority |-> Missing, category |-> Missing,
                 has_deadline |-> FALSE]
    /\ result = NoResult

\* end_time, focus_rating = None
None == -1

NoCall == [op |-> "none", arg |-> 0]

\* no FocusSession exists
NoFocusSession ==
    /\ session = [kind |-> "none", auto_checkin_habit |-> FALSE,
                  start_time |-> 0, end_time |-> None, distractions |-> 0,
                  focus_rating |-> None, notes |-> <<>>]
    /\ checkins = 0
    /\ clock = 0
    /\ call = NoCall

\* arguments of the FocusSession methods
Ratings == {0, 1, 4, 7}
CheckinArgs == {"None", "True", "False"}
NoteTexts == {<<" ">>, <<" ", "o", "k", " ">>}

PlanningOnly == FirstCall /\ NoScoreCall /\ NoFocusSession

NotGiven == [given |-> FALSE, value |-> 0]

\* the entry points of daily_plan.py are not in use
NoDailyPlanCall ==
    /\ mode = <<>>
    /\ energy_level = DefaultDifficulty
    /\ start_hhmm = <<0, 0>>
    /\ end_hhmm = <<0, 0>>

Init ==
    /\ \E n \in 0..MaxTasks :
          \E fs \in [1..n -> DurationFields] : tasks = TaskList(n, fs)
    /\ day_start \in DayStarts
    /\ day_end \in DayEnds
    /\ scheduler \in Schedulers
    /\ planner = NoPlanner
    /\ sorted_tasks = <<>>
    /\ sched_tasks = <<>>
    /\ pc = "idle"
    /\ i = 1
    /\ remaining_minutes = 0
    /\ current_start = 0
    /\ blocks = <<>>
    /\ NoDailyPlanCall
    /\ recovery_interval = NotGiven
    /\ error = "none"
    /\ PlanningOnly

InitPlan ==
    /\ \E n \in 0..MaxPlanTasks :
          \E fs \in [1..n -> PlanDurationFields] :
              \E ats \in [1..n -> PlanAttributes] :
                  tasks = PlanTaskList(n, fs, ats)
    /\ day_start = 0
    /\ day_end \in PlanDayEnds
    /\ \E c \in PlannerConfigs : planner = c[1] /\ scheduler = c[2]
    /\ sorted_tasks = <<>>
    /\ sched_tasks = <<>>
    /\ pc = "idle"
    /\ i = 1
    /\ remaining_minutes = 0
    /\ current_start = 0
    /\ blocks = <<>>
    /\ NoDailyPlanCall
    /\ recovery_interval = NotGiven
    /\ error = "none"
    /\ PlanningOnly

InitBalanced ==
    /\ \E n \in 0..MaxBalancedTasks :
          \E ps \in [1..n -> BalancedProfiles] : tasks = BalancedTaskList(n, ps)
    /\ day_start = 0
    /\ day_end = BalancedDayEnd
    /\ scheduler = SequentialScheduler
    /\ planner = NoPlanner
    /\ sorted_tasks = <<>>
    /\ sched_tasks = <<>>
    /\ pc = "new"
    /\ i = 1
    /\ remaining_minutes = 0
    /\ current_start = 0
    /\ blocks = <<>>
    /\ NoDailyPlanCall
    /\ recovery_interval \in RecoveryIntervalArgs
    /\ error = "none"
    /\ PlanningOnly

InitDaily ==
    /\ \E n \in 0..MaxDailyTasks :
          \E ps \in [1..n -> DailyProfiles] : tasks = DailyTaskList(n, ps)
    /\ mode \in Modes
    /\ energy_level = DefaultDifficulty
    /\ start_hhmm \in StartTimes
    /\ end_hhmm \in EndTimes
    /\ day_start = 0
    /\ day_end = 0
    /\ scheduler = SequentialScheduler
    /\ planner = NoPlanner
    /\ sorted_tasks = <<>>
    /\ sched_tasks = <<>>
    /\ pc = "call"
    /\ i = 1
    /\ remaining_minutes = 0
    /\ current_start = 0
    /\ blocks = <<>>
    /\ recovery_interval = NotGiven
    /\ error = "none"
    /\ PlanningOnly

InitPriority ==
    /\ \E n \in 0..MaxPriorityTasks :
          \E ps \in [1..n -> PriorityProfiles] : tasks = PriorityTaskList(n, ps)
    /\ day_start = 0
    /\ day_end = PriorityDayEnd
    /\ scheduler = SequentialScheduler
    /\ planner \in {StudyPlanner} \cup {EnergyPlanner(e) : e \in EnergyLevels}
    /\ sorted_tasks = <<>>
    /\ sched_tasks = <<>>
    /\ pc = "idle"
    /\ i = 1
    /\ remaining_minutes = 0
    /\ current_start = 0
    /\ blocks = <<>>
    /\ NoDailyPlanCall
    /\ recovery_interval = NotGiven
    /\ error = "none"
    /\ PlanningOnly

InitEnergy ==
    /\ \E n \in 0..MaxEnergyTasks :
          \E ps \in [1..n -> EnergyProfiles] : tasks = PriorityTaskList(n, ps)
    /\ energy_level \in EnergyArgs
    /\ day_start = 0
    /\ day_end = PriorityDayEnd
    /\ scheduler = SequentialScheduler
    /\ planner = NoPlanner
    /\ sorted_tasks = <<>>
    /\ sched_tasks = <<>>
    /\ pc = "new"
    /\ i = 1
    /\ remaining_minutes = 0
    /\ current_start = 0
    /\ blocks = <<>>
    /\ mode = <<>>
    /\ start_hhmm = <<0, 0>>
    /\ end_hhmm = <<0, 0>>
    /\ recovery_interval = NotGiven
    /\ error = "none"
    /\ PlanningOnly

\* windows short enough that a loop that ends does so within MaxBlocks
LoopDayEnds == {0, 20}

LoopDurationFields ==
    {[has_duration |-> TRUE, duration |-> d] : d \in {0, 10, 25}}

\* PomodoroScheduler with any integer configuration, called directly
InitPomodoro ==
    /\ \E n \in 0..MaxLoopTasks :
          \E fs \in [1..n -> LoopDurationFields] : tasks = TaskList(n, fs)
    /\ day_start = 0
    /\ day_end \in LoopDayEnds
    /\ scheduler \in {PomodoroScheduler(w, b) :
                         w \in WorkMinutesValues, b \in BreakMinutesValues}
    /\ planner = NoPlanner
    /\ sorted_tasks = <<>>
    /\ sched_tasks = <<>>
    /\ pc = "idle"
    /\ i = 1
    /\ remaining_minutes = 0
    /\ current_start = 0
    /\ blocks = <<>>
    /\ NoDailyPlanCall
    /\ recovery_interval = NotGiven
    /\ error = "none"
    /\ PlanningOnly

\* a planner about to be asked for the same plan several times
InitRepeat ==
    /\ \E n \in 0..MaxRepeatTasks :
          \E fs \in [1..n -> PlanDurationFields] :
              \E ats \in [1..n -> PlanAttributes] :
                  tasks = PlanTaskList(n, fs, ats)
    /\ day_start = 0
    /\ day_end \in PlanDayEnds
    /\ \E c \in PlannerConfigs : planner = c[1] /\ scheduler = c[2]
    /\ sorted_tasks = <<>>
    /\ sched_tasks = <<>>
    /\ pc = "idle"
    /\ i = 1
    /\ remaining_minutes = 0
    /\ current_start = 0
    /\ blocks = <<>>
    /\ NoDailyPlanCall
    /\ recovery_interval = NotGiven
    /\ error = "none"
    /\ PlanningOnly

InitScore ==
    /\ strategy \in {"simple", "deadline", "energy"}
    /\ planner \in IF strategy = "energy"
                      THEN {EnergyPlanner(e) : e \in EnergyLevels}
                      ELSE {NoPlanner}
    /\ \E du \in DurationAttrs, di \in DifficultyAttrs, pr \in PriorityAttrs,
          ca \in CategoryAttrs, dl \in BOOLEAN :
            scored = [duration |-> du, difficulty |-> di, priority |-> pr,
                      category |-> ca, has_deadline |-> dl]
    /\ result = NoResult
    /\ pc = "score"
    /\ tasks = <<>>
    /\ day_start = 0
    /\ day_end = 0
    /\ scheduler = SequentialScheduler
    /\ sorted_tasks = <<>>
    /\ sched_tasks = <<>>
    /\ i = 1
    /\ remaining_minutes = 0
    /\ current_start = 0
    /\ blocks = <<>>
    /\ NoDailyPlanCall
    /\ recovery_interval = NotGiven
    /\ error = "none"
    /\ FirstCall
    /\ NoFocusSession

\* FocusSession(task=...), FocusSession(habit=..., auto_checkin_habit=...)
\* or FocusSession(label=...), just constructed
InitFocus ==
    /\ \E k \in {"task", "habit", "custom"}, auto \in BOOLEAN :
          session = [kind |-> k, auto_checkin_habit |-> auto,
                     start_time |-> 0, end_time |-> None, distractions |-> 0,
                     focus_rating |-> None, notes |-> <<>>]
    /\ checkins = 0
    /\ clock = 0
    /\ call = NoCall
    /\ error = "none"
    /\ pc = "idle"
    /\ planner = NoPlanner
    /\ scheduler = SequentialScheduler
    /\ tasks = <<>>
    /\ day_start = 0
    /\ day_end = 0
    /\ sorted_tasks = <<>>
    /\ sched_tasks = <<>>
    /\ i = 1
    /\ remaining_minutes = 0
    /\ current_start = 0
    /\ blocks = <<>>
    /\ NoDailyPlanCall
    /\ recovery_interval = NotGiven
    /\ FirstCall
    /\ NoScoreCall

scoring == <<strategy, scored, result>>

core == <<session, checkins, clock, call>>

\* what the caller passes in, and the objects no planner call reaches
arguments == <<tasks, mode, energy_level, start_hhmm, end_hhmm,
               recovery_interval, returned, scoring, core>>

inputs == <<arguments, day_start, day_end, scheduler, planner, error>>

-----------------------------------------------------------------------------
(* The caller hands its list to scheduler.schedule; blocks = [],          *)
(* current_start = day_start.                                             *)

ScheduleCall_Midnight ==
    /\ pc = "idle"
    /\ planner.kind = "none"
    /\ sched_tasks' = tasks
    /\ blocks' = <<>>
    /\ current_start' = 0
    /\ i' = 1
    /\ pc' = IF scheduler.kind = "sequential" THEN "seq_for" ELSE "pom_for"
    /\ UNCHANGED <<inputs, sorted_tasks, remaining_minutes>>

ScheduleCall ==
    /\ pc = "idle"
    /\ planner.kind = "none"
    /\ sched_tasks' = tasks
    /\ blocks' = <<>>
    /\ current_start' = day_start
    /\ i' = 1
    /\ pc' = IF scheduler.kind = "sequential" THEN "seq_for" ELSE "pom_for"
    /\ UNCHANGED <<inputs, sorted_tasks, remaining_minutes>>

-----------------------------------------------------------------------------
(* priority_strategy.py: scores, as integers scaled by ScoreScale          *)

Urgency_OverdueFirst(task) ==
    IF ~task.has_deadline THEN 0
    ELSE IF task.days_left < 0 THEN 2 * ScoreScale
    ELSE ScoreScale \div Max(task.days_left, 1)

\* urgency = 1.0 / max(days_left, 1) with a deadline, 0.0 without
Urgency(task) ==
    IF task.has_deadline THEN ScoreScale \div Max(task.days_left, 1) ELSE 0

\* getattr(task, "difficulty", 3) or 3
DifficultyOf(task) ==
    IF task.difficulty = 0 THEN DefaultDifficulty ELSE task.difficulty

\* category_weights.get(category, 1.0)
Importance(task) ==
    CASE task.category = "study" -> 3
      [] task.category = "recovery" -> 2
      [] OTHER -> 1

\* DeadlinePriority.score; 0.3 * duration / 60 is 6 * duration / ScoreScale
DeadlineScore(task) ==
    4 * Urgency(task)
        + 3 * ScoreScale * Importance(task)
        + 2 * ScoreScale * DifficultyOf(task)
        - 6 * DurationOf(task)
        + (IF task.must_do_today THEN 10 * ScoreScale ELSE 0)

Abs_Signed(x) == x

Abs(x) == IF x < 0 THEN -x ELSE x

EnergyAwareScore_UrgencyFirst(task) ==
    LET difficulty == Max(1, Min(5, DifficultyOf(task)))
        diff == Abs(difficulty - planner.energy_level)
        compatibility == Max(0, 5 - diff)
    IN 3 * compatibility * ScoreScale + 8 * Urgency(task)

\* EnergyAwarePriority.score; 2.5 * ScoreScale = 3000
EnergyAwareScore(task) ==
    LET difficulty == Max(1, Min(5, DifficultyOf(task)))
        diff == Abs(difficulty - planner.energy_level)
        compatibility == Max(0, 5 - diff)
    IN 3000 * compatibility + 3 * Urgency(task)

\* self.priority_strategy.score
Score(task) ==
    IF planner.kind = "energy" THEN EnergyAwareScore(task)
    ELSE DeadlineScore(task)

\* the value of the integer attribute, 0 for a missing or None one
IntOf(attr) == IF attr.kind = "int" THEN attr.value ELSE 0

\* the object as the task record the scores above are computed from; the
\* deadline, when there is one, is today
AsTask(obj) ==
    [name |-> 1,
     has_duration |-> obj.duration.kind = "int",
     duration |-> IntOf(obj.duration),
     category |-> IF obj.category.kind = "text" THEN obj.category.value ELSE "none",
     difficulty |-> IntOf(obj.difficulty),
     has_deadline |-> obj.has_deadline, days_left |-> 0,
     must_do_today |-> FALSE, completed |-> FALSE, pomodoro |-> FALSE]

\* getattr(task, "priority", 1) or 1
PriorityOf(obj) == IF IntOf(obj.priority) = 0 THEN 1 ELSE IntOf(obj.priority)

\* SimplePriority.score; 0.2 * duration / 60 is 4 * duration / ScoreScale
SimpleScore(obj) == ScoreScale * PriorityOf(obj) - 4 * DurationOf(AsTask(obj))

\* the exception score() raises on a string attribute: duration / 60 and
\* 2.0 * difficulty are TypeErrors, float(priority) and int(difficulty)
\* are ValueErrors; "none" when the call returns
Raises(strat, obj) ==
    CASE strat = "simple" ->
            IF obj.duration.kind = "text" THEN "TypeError"
            ELSE IF obj.priority.kind = "text" THEN "ValueError"
            ELSE "none"
      [] strat = "deadline" ->
            IF obj.duration.kind = "text" \/ obj.difficulty.kind = "text"
                THEN "TypeError"
                ELSE "none"
      [] strat = "energy" ->
            IF obj.difficulty.kind = "text" THEN "ValueError" ELSE "none"

\* strategy.score(task), called directly
ScoreCall ==
    /\ pc = "score"
    /\ result' =
          IF Raises(strategy, scored) # "none"
             THEN [raised |-> Raises(strategy, scored), value |-> 0]
             ELSE [raised |-> "none",
                   value |-> CASE strategy = "simple" -> SimpleScore(scored)
                               [] strategy = "deadline" -> DeadlineScore(AsTask(scored))
                               [] strategy = "energy" -> EnergyAwareScore(AsTask(scored))]
    /\ pc' = "scored"
    /\ UNCHANGED <<tasks, mode, energy_level, start_hhmm, end_hhmm,
                   recovery_interval, returned, strategy, scored, core,
                   day_start, day_end, scheduler, planner, error, sorted_tasks,
                   sched_tasks, i, remaining_minutes, current_start, blocks>>

-----------------------------------------------------------------------------
(* core/focus_session.py *)

RECURSIVE StripLeft(_)
StripLeft(text) ==
    IF text # <<>> /\ Head(text) = " " THEN StripLeft(Tail(text)) ELSE text

RECURSIVE StripRight(_)
StripRight(text) ==
    IF text # <<>> /\ text[Len(text)] = " "
        THEN StripRight(SubSeq(text, 1, Len(text) - 1))
        ELSE text

\* str.strip()
Strip(text) == StripRight(StripLeft(text))

Called(op, rating, checkin_habit, text) ==
    [op |-> op, rating |-> rating, checkin_habit |-> checkin_habit, text |-> text]

\* what every session method leaves alone, and the time that passes
\* before the call
SessionCall ==
    /\ session.kind # "none"
    /\ clock < MaxSessionCalls
    /\ clock' = clock + 1
    /\ UNCHANGED <<tasks, mode, energy_level, start_hhmm, end_hhmm,
                   recovery_interval, returned, scoring, day_start, day_end,
                   scheduler, planner, sorted_tasks, sched_tasks, pc, i,
                   remaining_minutes, current_start, blocks>>

end_session_EndsAgain(checkin_habit) ==
    /\ SessionCall
    /\ call' = Called("end_session", 0, checkin_habit, <<>>)
    /\ error' = "none"
    /\ LET should_checkin ==
               IF checkin_habit = "None" THEN session.auto_checkin_habit
               ELSE checkin_habit = "True"
       IN /\ session' = [session EXCEPT !.end_time = clock']
          /\ checkins' = IF should_checkin /\ session.kind = "habit"
                             THEN checkins + 1
                             ELSE checkins

end_session(checkin_habit) ==
    /\ SessionCall
    /\ call' = Called("end_session", 0, checkin_habit, <<>>)
    /\ error' = "none"
    /\ IF session.end_time # None
          THEN UNCHANGED <<session, checkins>>
          ELSE LET should_checkin ==
                       IF checkin_habit = "None" THEN session.auto_checkin_habit
                       ELSE checkin_habit = "True"
               IN /\ session' = [session EXCEPT !.end_time = clock']
                  /\ checkins' = IF should_checkin /\ session.kind = "habit"
                                     THEN checkins + 1
                                     ELSE checkins

record_distraction ==
    /\ SessionCall
    /\ call' = Called("record_distraction", 0, "None", <<>>)
    /\ error' = "none"
    /\ session' = [session EXCEPT !.distractions = @ + 1]
    /\ UNCHANGED checkins

add_note(text) ==
    /\ SessionCall
    /\ call' = Called("add_note", 0, "None", text)
    /\ error' = "none"
    /\ session' = IF Strip(text) # <<>>
                      THEN [session EXCEPT !.notes = Append(@, Strip(text))]
                      ELSE session
    /\ UNCHANGED checkins

rate_focus_SetsFirst(rating) ==
    /\ SessionCall
    /\ call' = Called("rate_focus", rating, "None", <<>>)
    /\ session' = [session EXCEPT !.focus_rating = rating]
    /\ error' = IF rating < 1 \/ rating > 5 THEN "ValueError" ELSE "none"
    /\ UNCHANGED checkins

rate_focus(rating) ==
    /\ SessionCall
    /\ call' = Called("rate_focus", rating, "None", <<>>)
    /\ IF rating < 1 \/ rating > 5
          THEN /\ error' = "ValueError"
               /\ UNCHANGED session
          ELSE /\ error' = "none"
               /\ session' = [session EXCEPT !.focus_rating = rating]
    /\ UNCHANGED checkins

EndSession == \E checkin_habit \in CheckinArgs : end_session(checkin_habit)

AddNote == \E text \in NoteTexts : add_note(text)

RateFocus == \E rating \in Ratings : rate_focus(rating)

-----------------------------------------------------------------------------
(* base_planner.py *)

RECURSIVE Insert_BeforeEqual(_, _)
Insert_BeforeEqual(s, t) ==
    IF s = <<>> THEN <<t>>
    ELSE IF Score(Head(s)) > Score(t)
            THEN <<Head(s)>> \o Insert_BeforeEqual(Tail(s), t)
            ELSE <<t>> \o s

\* place t in the descending list s behind every element that scores at
\* least as high: sorted() is stable, also with reverse=True
RECURSIVE Insert(_, _)
Insert(s, t) ==
    IF s = <<>> THEN <<t>>
    ELSE IF Score(Head(s)) >= Score(t)
            THEN <<Head(s)>> \o Insert(Tail(s), t)
            ELSE <<t>> \o s

RECURSIVE SortPrefix(_, _)
SortPrefix(ts, n) ==
    IF n = 0 THEN <<>> ELSE Insert(SortPrefix(ts, n - 1), ts[n])

\* Planner._sort_tasks: sorted(tasks, key=score, reverse=True)
sort_tasks(ts) == SortPrefix(ts, Len(ts))

IsRecovery(t) == t.category = "recovery"
IsRegular(t) == ~IsRecovery(t)

RECURSIVE Combined_WithoutRest(_, _, _, _)
Combined_WithoutRest(regular, recovery, k, idx) ==
    IF k > Len(regular) THEN <<>>
    ELSE IF k % RecoveryInterval = 0 /\ idx <= Len(recovery)
            THEN <<regular[k], recovery[idx]>>
                     \o Combined_WithoutRest(regular, recovery, k + 1, idx + 1)
            ELSE <<regular[k]>>
                     \o Combined_WithoutRest(regular, recovery, k + 1, idx)

RECURSIVE Combined_ZeroBased(_, _, _, _)
Combined_ZeroBased(regular, recovery, k, idx) ==
    IF k > Len(regular) THEN SubSeq(recovery, idx, Len(recovery))
    ELSE IF (k - 1) % RecoveryInterval = 0 /\ idx <= Len(recovery)
            THEN <<regular[k], recovery[idx]>>
                     \o Combined_ZeroBased(regular, recovery, k + 1, idx + 1)
            ELSE <<regular[k]>>
                     \o Combined_ZeroBased(regular, recovery, k + 1, idx)

\* the interleaving loop of BalancedPlanner.generate from regular task k on,
\* idx being the next recovery task (both 1-based), and the final extend
RECURSIVE Combined(_, _, _, _)
Combined(regular, recovery, k, idx) ==
    IF k > Len(regular) THEN SubSeq(recovery, idx, Len(recovery))
    ELSE IF k % RecoveryInterval = 0 /\ idx <= Len(recovery)
            THEN <<regular[k], recovery[idx]>>
                     \o Combined(regular, recovery, k + 1, idx + 1)
            ELSE <<regular[k]>> \o Combined(regular, recovery, k + 1, idx)

Delegate_KeepsBlocks(ordered) ==
    /\ sched_tasks' = ordered
    /\ current_start' = day_start
    /\ i' = 1
    /\ pc' = IF scheduler.kind = "sequential" THEN "seq_for" ELSE "pom_for"
    /\ UNCHANGED <<inputs, remaining_minutes, blocks>>

Delegate_SortsInPlace(ordered) ==
    /\ tasks' = ordered
    /\ sched_tasks' = ordered
    /\ blocks' = <<>>
    /\ current_start' = day_start
    /\ i' = 1
    /\ pc' = IF scheduler.kind = "sequential" THEN "seq_for" ELSE "pom_for"
    /\ UNCHANGED <<mode, energy_level, start_hhmm, end_hhmm, recovery_interval,
                   returned, scoring, core, day_start, day_end, scheduler,
                   planner, error, remaining_minutes>>

\* what generate() does before the scheduler's loop runs: the list is handed
\* to self.scheduler.schedule, which sets blocks = [], current_start = day_start
Delegate(ordered) ==
    /\ sched_tasks' = ordered
    /\ blocks' = <<>>
    /\ current_start' = day_start
    /\ i' = 1
    /\ pc' = IF scheduler.kind = "sequential" THEN "seq_for" ELSE "pom_for"
    /\ UNCHANGED <<inputs, remaining_minutes>>

\* BalancedPlanner(...) as the caller wrote it: __init__ takes
\* priority_strategy and scheduler only, any other keyword is a TypeError
BalancedNew ==
    /\ pc = "new"
    /\ IF recovery_interval.given
          THEN /\ error' = "TypeError"
               /\ pc' = "raised"
               /\ UNCHANGED planner
          ELSE /\ planner' = BalancedPlanner
               /\ pc' = "idle"
               /\ UNCHANGED error
    /\ UNCHANGED <<arguments, day_start, day_end, scheduler, sorted_tasks,
                   sched_tasks, i, remaining_minutes, current_start, blocks>>

-----------------------------------------------------------------------------
(* daily_plan.py *)

UpperToLower ==
    [A |-> "a", B |-> "b", C |-> "c", D |-> "d", E |-> "e", F |-> "f",
     G |-> "g", H |-> "h", I |-> "i", J |-> "j", K |-> "k", L |-> "l",
     M |-> "m", N |-> "n", O |-> "o", P |-> "p", Q |-> "q", R |-> "r",
     S |-> "s", T |-> "t", U |-> "u", V |-> "v", W |-> "w", X |-> "x",
     Y |-> "y", Z |-> "z"]

Lower_Unchanged(str) == str

\* str.lower()
Lower(str) ==
    [k \in 1..Len(str) |->
        IF str[k] \in DOMAIN UpperToLower THEN UpperToLower[str[k]] ELSE str[k]]

\* the result of get_planner when it raises ValueError
UnknownMode == [kind |-> "ValueError", energy_level |-> DefaultDifficulty]

get_planner(m, level) ==
    LET lowered == Lower(m)
    IN IF lowered = STUDY THEN StudyPlanner
       ELSE IF lowered = ENERGY THEN EnergyPlanner(level)
       ELSE IF lowered = BALANCED THEN BalancedPlanner
       ELSE UnknownMode

\* datetime.strptime(s, "%H:%M") accepts hours 0..23 and minutes 0..59
WellFormed(hhmm) == hhmm[1] \in 0..23 /\ hhmm[2] \in 0..59

\* minutes since today's midnight of the parsed instant
ParseTime(hhmm) == 60 * hhmm[1] + hhmm[2]

\* generate_daily_plan up to the call of planner.generate: both times are
\* parsed, then get_planner builds the planner with its default scheduler
DailyPlanCall ==
    /\ pc = "call"
    /\ IF ~WellFormed(start_hhmm) \/ ~WellFormed(end_hhmm)
          THEN /\ error' = "ValueError"
               /\ pc' = "raised"
               /\ UNCHANGED <<day_start, day_end, planner, scheduler>>
          ELSE IF get_planner(mode, energy_level) = UnknownMode
                  THEN /\ error' = "ValueError"
                       /\ pc' = "raised"
                       /\ UNCHANGED <<day_start, day_end, planner, scheduler>>
                  ELSE /\ day_start' = ParseTime(start_hhmm)
                       /\ day_end' = ParseTime(end_hhmm)
                       /\ planner' = get_planner(mode, energy_level)
                       /\ scheduler' = SequentialScheduler
                       /\ pc' = "idle"
                       /\ UNCHANGED error
    /\ UNCHANGED <<arguments, sorted_tasks, sched_tasks, i, remaining_minutes,
                   current_start, blocks>>

\* the caller keeps the list generate() returned and calls generate() again
\* on the same planner with the same tasks, day_start and day_end; the
\* planner and scheduler objects are as the first call left them
GenerateAgain ==
    /\ pc = "done"
    /\ planner.kind # "none"
    /\ Len(returned) + 1 < MaxGenerateCalls
    /\ returned' = Append(returned, blocks)
    /\ pc' = "idle"
    /\ UNCHANGED <<tasks, mode, energy_level, start_hhmm, end_hhmm,
                   recovery_interval, scoring, core, day_start, day_end,
                   scheduler, planner, error, sorted_tasks, sched_tasks, i,
                   remaining_minutes, current_start, blocks>>

\* EnergyPlanner(energy_level): builds EnergyAwarePriority(energy_level)
EnergyNew ==
    /\ pc = "new"
    /\ planner' = EnergyPlanner(energy_level)
    /\ pc' = "idle"
    /\ UNCHANGED <<arguments, day_start, day_end, scheduler, error, sorted_tasks,
                   sched_tasks, i, remaining_minutes, current_start, blocks>>

StudyGenerate ==
    /\ pc = "idle"
    /\ planner.kind = "study"
    /\ sorted_tasks' = sort_tasks(tasks)
    /\ Delegate(sorted_tasks')

EnergyGenerate ==
    /\ pc = "idle"
    /\ planner.kind = "energy"
    /\ sorted_tasks' = sort_tasks(tasks)
    /\ Delegate(sorted_tasks')

BalancedGenerate ==
    /\ pc = "idle"
    /\ planner.kind = "balanced"
    /\ LET recovery_tasks == SelectSeq(tasks, IsRecovery)
           regular_tasks == SelectSeq(tasks, IsRegular)
       IN /\ sorted_tasks' = sort_tasks(regular_tasks)
          /\ Delegate(Combined(sorted_tasks', recovery_tasks, 1, 1))

-----------------------------------------------------------------------------
(* SequentialScheduler.schedule: one iteration of `for task in tasks`     *)

SeqSkip ==
    /\ pc = "seq_for"
    /\ i <= Len(sched_tasks)
    /\ Skipped(sched_tasks[i])
    /\ i' = i + 1
    /\ UNCHANGED <<inputs, sorted_tasks, sched_tasks, pc, remaining_minutes, current_start,
                   blocks>>

SeqBreak_Continue ==
    /\ pc = "seq_for"
    /\ i <= Len(sched_tasks)
    /\ ~Skipped(sched_tasks[i])
    /\ NoRoom(current_start, current_start + DurationOf(sched_tasks[i]))
    /\ i' = i + 1
    /\ UNCHANGED <<inputs, sorted_tasks, sched_tasks, pc, remaining_minutes, current_start,
                   blocks>>

SeqBreak ==
    /\ pc = "seq_for"
    /\ i <= Len(sched_tasks)
    /\ ~Skipped(sched_tasks[i])
    /\ NoRoom(current_start, current_start + DurationOf(sched_tasks[i]))
    /\ pc' = "done"
    /\ UNCHANGED <<inputs, sorted_tasks, sched_tasks, i, remaining_minutes, current_start,
                   blocks>>

SeqAppend ==
    /\ pc = "seq_for"
    /\ i <= Len(sched_tasks)
    /\ ~Skipped(sched_tasks[i])
    /\ LET block_end == current_start + DurationOf(sched_tasks[i])
       IN /\ ~NoRoom(current_start, block_end)
          /\ blocks' = Append(blocks,
                              PlannedBlock(sched_tasks[i], current_start, block_end))
          /\ current_start' = block_end
    /\ i' = i + 1
    /\ UNCHANGED <<inputs, sorted_tasks, sched_tasks, pc, remaining_minutes>>

SeqReturn ==
    /\ pc = "seq_for"
    /\ i > Len(sched_tasks)
    /\ pc' = "done"
    /\ UNCHANGED <<inputs, sorted_tasks, sched_tasks, i, remaining_minutes, current_start,
                   blocks>>

-----------------------------------------------------------------------------
(* PomodoroScheduler.schedule                                             *)

PomSkip ==
    /\ pc = "pom_for"
    /\ i <= Len(sched_tasks)
    /\ Skipped(sched_tasks[i])
    /\ i' = i + 1
    /\ UNCHANGED <<inputs, sorted_tasks, sched_tasks, pc, remaining_minutes, current_start,
                   blocks>>

PomTask ==
    /\ pc = "pom_for"
    /\ i <= Len(sched_tasks)
    /\ ~Skipped(sched_tasks[i])
    /\ remaining_minutes' = DurationOf(sched_tasks[i])
    /\ pc' = "pom_while"
    /\ UNCHANGED <<inputs, sorted_tasks, sched_tasks, i, current_start, blocks>>

PomNoSpace_NextTask ==
    /\ pc = "pom_while"
    /\ remaining_minutes > 0
    /\ NoRoom(current_start, WorkBlockEnd(current_start))
    /\ i' = i + 1
    /\ pc' = "pom_for"
    /\ UNCHANGED <<inputs, sorted_tasks, sched_tasks, remaining_minutes, current_start,
                   blocks>>

PomNoSpace ==
    /\ pc = "pom_while"
    /\ remaining_minutes > 0
    /\ NoRoom(current_start, WorkBlockEnd(current_start))
    /\ pc' = "done"
    /\ UNCHANGED <<inputs, sorted_tasks, sched_tasks, i, remaining_minutes, current_start,
                   blocks>>

\* One pass of the while body that appends a work block: the block, the
\* bookkeeping, and the break that follows when task time is left.
PomBlock ==
    /\ pc = "pom_while"
    /\ remaining_minutes > 0
    /\ Len(blocks) < MaxBlocks
    /\ LET block_end == WorkBlockEnd(current_start)
           remaining == remaining_minutes - scheduler.work_minutes
           break_end == BreakEnd(block_end)
       IN /\ ~NoRoom(current_start, block_end)
          /\ blocks' = Append(blocks,
                              PlannedBlock(sched_tasks[i], current_start, block_end))
          /\ remaining_minutes' = remaining
          /\ IF BreakDue(remaining)
                THEN IF NoRoom(block_end, break_end)
                        THEN /\ current_start' = block_end
                             /\ pc' = "done"
                        ELSE /\ current_start' = break_end
                             /\ pc' = "pom_while"
                ELSE /\ current_start' = block_end
                     /\ pc' = "pom_while"
    /\ UNCHANGED <<inputs, sorted_tasks, sched_tasks, i>>

PomTaskDone ==
    /\ pc = "pom_while"
    /\ remaining_minutes <= 0
    /\ i' = i + 1
    /\ pc' = "pom_for"
    /\ UNCHANGED <<inputs, sorted_tasks, sched_tasks, remaining_minutes, current_start,
                   blocks>>

PomReturn ==
    /\ pc = "pom_for"
    /\ i > Len(sched_tasks)
    /\ pc' = "done"
    /\ UNCHANGED <<inputs, sorted_tasks, sched_tasks, i, remaining_minutes, current_start,
                   blocks>>

-----------------------------------------------------------------------------
Next ==
    \/ ScheduleCall
    \/ SeqSkip
    \/ SeqBreak
    \/ SeqAppend
    \/ SeqReturn
    \/ PomSkip
    \/ PomTask
    \/ PomNoSpace
    \/ PomBlock
    \/ PomTaskDone
    \/ PomReturn

Spec == Init /\ [][Next]_vars

\* a planner's generate() followed by the loop of its scheduler
NextPlan ==
    \/ StudyGenerate
    \/ EnergyGenerate
    \/ BalancedGenerate
    \/ SeqSkip
    \/ SeqBreak
    \/ SeqAppend
    \/ SeqReturn
    \/ PomSkip
    \/ PomTask
    \/ PomNoSpace
    \/ PomBlock
    \/ PomTaskDone
    \/ PomReturn

SpecPlan == InitPlan /\ [][NextPlan]_vars

\* a BalancedPlanner built with its defaults, then generate()
NextBalanced ==
    \/ BalancedNew
    \/ BalancedGenerate
    \/ SeqSkip
    \/ SeqBreak
    \/ SeqAppend
    \/ SeqReturn

SpecBalanced == InitBalanced /\ [][NextBalanced]_vars

\* generate_daily_plan: get_planner, generate(), the sequential loop
NextDaily ==
    \/ DailyPlanCall
    \/ StudyGenerate
    \/ EnergyGenerate
    \/ BalancedGenerate
    \/ SeqSkip
    \/ SeqBreak
    \/ SeqAppend
    \/ SeqReturn

SpecDaily == InitDaily /\ [][NextDaily]_vars

\* StudyPlanner and EnergyPlanner with the sequential scheduler, over tasks
\* that differ in deadline and difficulty
NextPriority ==
    \/ StudyGenerate
    \/ EnergyGenerate
    \/ SeqSkip
    \/ SeqBreak
    \/ SeqAppend
    \/ SeqReturn

SpecPriority == InitPriority /\ [][NextPriority]_vars

\* EnergyPlanner(energy_level).generate with the sequential scheduler
NextEnergy ==
    \/ EnergyNew
    \/ EnergyGenerate
    \/ SeqSkip
    \/ SeqBreak
    \/ SeqAppend
    \/ SeqReturn

SpecEnergy == InitEnergy /\ [][NextEnergy]_vars

\* PomodoroScheduler.schedule alone; the interpreter keeps running the loop
NextPomodoro ==
    \/ ScheduleCall
    \/ PomSkip
    \/ PomTask
    \/ PomNoSpace
    \/ PomBlock
    \/ PomTaskDone
    \/ PomReturn

SpecPomodoro ==
    InitPomodoro /\ [][NextPomodoro]_vars /\ WF_vars(NextPomodoro)

\* generate() called again and again with the same arguments
NextRepeat ==
    \/ GenerateAgain
    \/ StudyGenerate
    \/ EnergyGenerate
    \/ BalancedGenerate
    \/ SeqSkip
    \/ SeqBreak
    \/ SeqAppend
    \/ SeqReturn
    \/ PomSkip
    \/ PomTask
    \/ PomNoSpace
    \/ PomBlock
    \/ PomTaskDone
    \/ PomReturn

SpecRepeat == InitRepeat /\ [][NextRepeat]_vars

\* the methods of one FocusSession, called in any order
NextFocus ==
    \/ EndSession
    \/ record_distraction
    \/ AddNote
    \/ RateFocus

SpecFocus == InitFocus /\ [][NextFocus]_vars

\* one score() call on an object with any mix of attribute values
NextScore == ScoreCall

SpecScore == InitScore /\ [][NextScore]_vars

-----------------------------------------------------------------------------
(* Vocabulary of the properties *)

Sequential == scheduler.kind = "sequential"
Pomodoro == scheduler.kind = "pomodoro"
Returned == pc = "done"

HasPositiveDuration(t) == t.has_duration /\ t.duration > 0

\* the positive-duration tasks of the scheduler's input, input order kept
PositiveTasks == SelectSeq(sched_tasks, HasPositiveDuration)

RECURSIVE SumDurations(_, _)
SumDurations(ts, n) ==
    IF n = 0 THEN 0 ELSE ts[n].duration + SumDurations(ts, n - 1)

BlockLength(b) == b.end - b.start

\* number of blocks among the first k that refer to the task of block k
BlocksSoFar(k) == Cardinality({m \in 1..k : blocks[m].task = blocks[k].task})

\* minutes of the task of block k not yet covered once block k is placed
RemainingAfter(k) ==
    blocks[k].task.duration - BlocksSoFar(k) * scheduler.work_minutes

RECURSIVE SumLengths(_, _)
SumLengths(t, k) ==
    IF k = 0 THEN 0
    ELSE (IF blocks[k].task = t THEN BlockLength(blocks[k]) ELSE 0)
            + SumLengths(t, k - 1)

-----------------------------------------------------------------------------
\* C1: every block of SequentialScheduler.schedule starts at or after
\* day_start and ends at or before day_end.
C1_SequentialBlocksInsideWindow ==
    Sequential =>
        \A k \in 1..Len(blocks) :
            blocks[k].start >= day_start /\ blocks[k].end <= day_end

C1_Witness ==
    /\ Sequential /\ Returned
    /\ Len(blocks) >= 2
    /\ i <= Len(sched_tasks)
    /\ blocks[Len(blocks)].end = day_end

\* C2: the tasks of the returned blocks are, in order, the longest prefix of
\* the positive-duration input tasks that fits the window; the first task
\* that does not fit and all later ones get no block.
C2_SequentialLongestPrefix ==
    (Sequential /\ Returned) =>
        LET n == Len(blocks)
            window == day_end - day_start
        IN /\ n <= Len(PositiveTasks)
           /\ \A k \in 1..n : blocks[k].task = PositiveTasks[k]
           /\ n > 0 => SumDurations(PositiveTasks, n) <= window
           /\ n < Len(PositiveTasks) =>
                  SumDurations(PositiveTasks, n + 1) > window

\* a later, shorter task would still have fitted and got no block
C2_Witness ==
    /\ Sequential /\ Returned
    /\ Len(blocks) >= 1
    /\ Len(PositiveTasks) >= Len(blocks) + 2
    /\ SumDurations(PositiveTasks, Len(blocks))
           + PositiveTasks[Len(blocks) + 2].duration <= day_end - day_start

\* C3: a task whose duration is zero, negative or missing never gets a block
\* from either scheduler, and the scheduler does not stop at such a task:
\* every positive-duration task passed by the loop has a block, and a return
\* before the end of the list happens at a positive-duration task.
C3_NonPositiveTasksSkipped ==
    /\ \A k \in 1..Len(blocks) : HasPositiveDuration(blocks[k].task)
    /\ (pc \in {"seq_for", "pom_for"}) =>
           \A j \in 1..(i - 1) :
               HasPositiveDuration(sched_tasks[j]) =>
                   \E k \in 1..Len(blocks) : blocks[k].task = sched_tasks[j]
    /\ (Returned /\ i <= Len(sched_tasks)) =>
           HasPositiveDuration(sched_tasks[i])

C3_Witness ==
    /\ Returned
    /\ Pomodoro
    /\ \E j \in 1..Len(sched_tasks) :
          /\ ~HasPositiveDuration(sched_tasks[j])
          /\ \E k \in 1..Len(blocks) : blocks[k].task.name > sched_tasks[j].name
          /\ \E k \in 1..Len(blocks) : blocks[k].task.name < sched_tasks[j].name

\* C4: in SequentialScheduler's output the first block starts at day_start,
\* each later block starts where the previous one ended, and each block is
\* as long as its task's duration.
C4_SequentialContiguous ==
    Sequential =>
        \A k \in 1..Len(blocks) :
            /\ blocks[k].start = (IF k = 1 THEN day_start ELSE blocks[k - 1].end)
            /\ BlockLength(blocks[k]) = blocks[k].task.duration

C4_Witness ==
    /\ Sequential /\ Returned
    /\ day_start > 0
    /\ Len(blocks) >= 2
    /\ blocks[1].task.duration # blocks[2].task.duration

\* C5: every Pomodoro block ends at or before day_end; when the next work
\* block, or the break after a block of a task with time remaining, would end
\* after day_end, schedule returns at once with the blocks placed so far, and
\* nothing is added after the return.
C5_BlocksEndInWindow ==
    Pomodoro =>
        /\ \A k \in 1..Len(blocks) : blocks[k].end <= day_end
        /\ Returned =>
               \A k \in 1..Len(blocks) :
                   \E j \in 1..Len(sched_tasks) :
                       j <= i /\ sched_tasks[j] = blocks[k].task

C5_ReturnsWhenFull ==
    (Pomodoro /\ pc = "pom_while" /\ remaining_minutes > 0) =>
        LET block_end == current_start + scheduler.work_minutes
            remaining == remaining_minutes - scheduler.work_minutes
            break_end == block_end + scheduler.break_minutes
            block == [task |-> sched_tasks[i], start |-> current_start,
                      end |-> block_end]
        IN /\ block_end > day_end => (pc' = "done" /\ blocks' = blocks)
           /\ (block_end <= day_end /\ remaining > 0 /\ break_end > day_end) =>
                  (pc' = "done" /\ blocks' = Append(blocks, block))

C5_PomodoroStopsAtDayEnd ==
    /\ [](C5_BlocksEndInWindow)
    /\ [][C5_ReturnsWhenFull]_vars
    /\ [][Returned => (Returned' /\ blocks' = blocks)]_vars

\* returned on the break check, right after a block was appended, with a
\* later task left unscheduled
C5_Witness ==
    /\ Pomodoro /\ Returned
    /\ scheduler.work_minutes > 0
    /\ scheduler.break_minutes > 0
    /\ Len(blocks) >= 2
    /\ remaining_minutes > 0
    /\ current_start = blocks[Len(blocks)].end
    /\ current_start + scheduler.break_minutes > day_end
    /\ \E j \in (i + 1)..Len(sched_tasks) : HasPositiveDuration(sched_tasks[j])

\* C6: default 25/5 Pomodoro, one 50-minute task, window of 60 minutes or
\* more: exactly two 25-minute blocks, the second starting 30 minutes after
\* the first.
C6_Applies ==
    /\ Pomodoro /\ Returned
    /\ scheduler.work_minutes = DefaultWorkMinutes
    /\ scheduler.break_minutes = DefaultBreakMinutes
    /\ Len(sched_tasks) = 1
    /\ sched_tasks[1].has_duration /\ sched_tasks[1].duration = 50
    /\ day_end - day_start >= 60

C6_FiftyMinuteTaskTwoBlocks ==
    C6_Applies =>
        /\ Len(blocks) = 2
        /\ BlockLength(blocks[1]) = 25
        /\ BlockLength(blocks[2]) = 25
        /\ blocks[2].start - blocks[1].start = 30

C6_Witness == C6_Applies /\ Len(blocks) = 2 /\ blocks[1].start = day_start

\* C7: every block returned by either scheduler, for any task list, window
\* and integer work_minutes/break_minutes, ends strictly after it starts.
C7_EndAfterStart ==
    Returned => \A k \in 1..Len(blocks) : blocks[k].end > blocks[k].start

\* C8: the final Pomodoro block of a task with fewer than work_minutes left
\* is sized to what remains, so the block lengths of a fully scheduled task
\* sum to the task's duration.
C8_LengthsSumToDuration ==
    Pomodoro =>
        \A k \in 1..Len(blocks) :
            RemainingAfter(k) <= 0 =>
                SumLengths(blocks[k].task, k) = blocks[k].task.duration

CeilDiv(a, b) == (a + b - 1) \div b

\* C8 as amended: every Pomodoro block is exactly work_minutes long, also the
\* last one of a task; the block lengths of a fully scheduled task of
\* duration d sum to ceil(d / work_minutes) * work_minutes.
C8_BlocksAreWorkMinutesLong ==
    Pomodoro =>
        \A k \in 1..Len(blocks) :
            /\ BlockLength(blocks[k]) = scheduler.work_minutes
            /\ (scheduler.work_minutes > 0 /\ RemainingAfter(k) <= 0) =>
                   SumLengths(blocks[k].task, k) =
                       CeilDiv(blocks[k].task.duration, scheduler.work_minutes)
                           * scheduler.work_minutes

\* a fully scheduled task whose last chunk was shorter than work_minutes
C8_Witness ==
    /\ Pomodoro /\ Returned
    /\ \E k \in 1..Len(blocks) :
          /\ BlocksSoFar(k) >= 2
          /\ RemainingAfter(k) < 0

\* C9: no Pomodoro block stands for a break (each is a work block of an
\* input task); two consecutive blocks are break_minutes apart when the
\* earlier block's task still had minutes remaining after it, and adjacent
\* otherwise.
C9_BreakGaps ==
    Pomodoro =>
        /\ \A k \in 1..Len(blocks) :
              /\ \E j \in 1..Len(sched_tasks) : sched_tasks[j] = blocks[k].task
              /\ BlockLength(blocks[k]) = scheduler.work_minutes
        /\ \A k \in 1..(Len(blocks) - 1) :
              blocks[k + 1].start - blocks[k].end =
                  (IF RemainingAfter(k) > 0 THEN scheduler.break_minutes ELSE 0)

\* both kinds of gap occur in one output
C9_Witness ==
    /\ Pomodoro /\ Returned
    /\ scheduler.break_minutes > 0
    /\ \E k \in 1..(Len(blocks) - 1) :
          blocks[k].task = blocks[k + 1].task /\ RemainingAfter(k) > 0
    /\ \E k \in 1..(Len(blocks) - 1) :
          blocks[k].task # blocks[k + 1].task /\ RemainingAfter(k) <= 0

\* C10: Planner._sort_tasks returns its input in non-increasing order of
\* priority_strategy.score, tasks of equal score keeping their input order.
\* (A task's name is its position in the caller's list.)
SortInput ==
    IF planner.kind = "balanced" THEN SelectSeq(tasks, IsRegular) ELSE tasks

Sorted == planner.kind # "none" /\ pc # "idle"

C10_SortDescendingStable ==
    Sorted =>
        /\ Len(sorted_tasks) = Len(SortInput)
        /\ \A k \in 1..Len(SortInput) :
              \E m \in 1..Len(sorted_tasks) : sorted_tasks[m] = SortInput[k]
        /\ \A a, b \in 1..Len(sorted_tasks) :
              a < b =>
                  /\ Score(sorted_tasks[a]) >= Score(sorted_tasks[b])
                  /\ Score(sorted_tasks[a]) = Score(sorted_tasks[b]) =>
                         sorted_tasks[a].name < sorted_tasks[b].name

\* a higher-scoring task moved in front of two tasks that tie and stay in
\* their input order, although the two differ in some attribute
C10_Witness ==
    /\ Sorted
    /\ Len(sorted_tasks) = 3
    /\ sorted_tasks[1].name = 3
    /\ Score(sorted_tasks[1]) > Score(sorted_tasks[2])
    /\ Score(sorted_tasks[2]) = Score(sorted_tasks[3])
    /\ sorted_tasks[2].category # sorted_tasks[3].category

\* C11: BalancedPlanner.generate hands its scheduler the regular tasks in
\* descending score order with the k-th recovery task (input order, never
\* re-sorted) right after the 2k-th regular task, the recovery tasks not
\* placed that way at the end; A, B, C and one recovery task R give
\* [A, B, R, C].
Delegated == planner.kind = "balanced" /\ pc \in {"seq_for", "pom_for", "pom_while", "done"}

InputRecovery == SelectSeq(tasks, IsRecovery)
InputRegular == SelectSeq(tasks, IsRegular)
HandedRegular == SelectSeq(sched_tasks, IsRegular)

\* where the k-th recovery task and the j-th regular task must be
RecoveryPosition(k) ==
    IF 2 * k <= Len(InputRegular) THEN 3 * k ELSE Len(InputRegular) + k

RegularPosition(j) ==
    IF (j - 1) \div 2 <= Len(InputRecovery)
        THEN j + (j - 1) \div 2
        ELSE j + Len(InputRecovery)

C11_BalancedInterleaving ==
    Delegated =>
        /\ Len(sched_tasks) = Len(tasks)
        /\ \A k \in 1..Len(InputRecovery) :
              sched_tasks[RecoveryPosition(k)] = InputRecovery[k]
        /\ Len(HandedRegular) = Len(InputRegular)
        /\ \A j \in 1..Len(InputRegular) :
              /\ sched_tasks[RegularPosition(j)] = HandedRegular[j]
              /\ \E m \in 1..Len(HandedRegular) : HandedRegular[m] = InputRegular[j]
        /\ \A a, b \in 1..Len(HandedRegular) :
              a < b => DeadlineScore(HandedRegular[a]) >= DeadlineScore(HandedRegular[b])
        /\ (Len(InputRegular) = 3 /\ Len(InputRecovery) = 1) =>
              sched_tasks = <<HandedRegular[1], HandedRegular[2],
                              InputRecovery[1], HandedRegular[3]>>

\* two recovery tasks interleaved and a third left for the end, the recovery
\* tasks in input order against their scores, the regular ones re-ordered
C11_Witness ==
    /\ Delegated /\ pc = "done"
    /\ Len(InputRegular) = 4
    /\ Len(InputRecovery) = 2
    /\ IsRecovery(sched_tasks[3]) /\ IsRecovery(sched_tasks[6])
    /\ DeadlineScore(sched_tasks[3]) < DeadlineScore(sched_tasks[6])
    /\ InputRegular # HandedRegular

\* C12: BalancedPlanner accepts recovery_interval and clamps values below 1
\* to 1: with recovery_interval=-3, regular tasks A, B (A scoring higher) and
\* one recovery task the order handed on is [A, recovery, B].
C12_Applies ==
    /\ recovery_interval.given /\ recovery_interval.value = -3
    /\ Len(InputRegular) = 2 /\ Len(InputRecovery) = 1
    /\ DeadlineScore(InputRegular[1]) > DeadlineScore(InputRegular[2])
    /\ pc \in {"done", "raised"}

C12_RecoveryIntervalClamped ==
    C12_Applies =>
        /\ error = "none"
        /\ sched_tasks = <<InputRegular[1], InputRecovery[1], InputRegular[2]>>

\* C13: generate_daily_plan with an end time not strictly after the start
\* time is rejected with ValueError before any scheduling takes place.
TimesWellFormed == WellFormed(start_hhmm) /\ WellFormed(end_hhmm)

WindowInvalid ==
    /\ TimesWellFormed
    /\ 60 * end_hhmm[1] + end_hhmm[2] <= 60 * start_hhmm[1] + start_hhmm[2]

C13_InvalidWindowRejected ==
    (WindowInvalid /\ pc # "call") => (pc = "raised" /\ error = "ValueError")

\* C14: get_planner raises ValueError for every mode that is, compared
\* case-insensitively, none of study, energy, balanced, and returns a
\* StudyPlanner, EnergyPlanner, BalancedPlanner for those; with an unknown
\* mode generate_daily_plan produces no plan.
SameLetter(a, b) ==
    \/ a = b
    \/ a \in DOMAIN UpperToLower /\ UpperToLower[a] = b
    \/ b \in DOMAIN UpperToLower /\ UpperToLower[b] = a

EqualIgnoringCase(x, y) ==
    Len(x) = Len(y) /\ \A k \in 1..Len(x) : SameLetter(x[k], y[k])

C14_GetPlannerByMode ==
    (TimesWellFormed /\ pc # "call") =>
        /\ EqualIgnoringCase(mode, STUDY) => (error = "none" /\ planner.kind = "study")
        /\ EqualIgnoringCase(mode, ENERGY) => (error = "none" /\ planner.kind = "energy")
        /\ EqualIgnoringCase(mode, BALANCED) =>
               (error = "none" /\ planner.kind = "balanced")
        /\ (\A known \in {STUDY, ENERGY, BALANCED} : ~EqualIgnoringCase(mode, known)) =>
               /\ pc = "raised" /\ error = "ValueError"
               /\ planner = NoPlanner
               /\ sched_tasks = <<>> /\ blocks = <<>>

\* an unknown mode that differs from a known one by one more letter
C14_Witness ==
    /\ TimesWellFormed
    /\ pc = "raised" /\ error = "ValueError"
    /\ Len(mode) = Len(STUDY) + 1
    /\ SubSeq(mode, 1, Len(STUDY)) = STUDY
    /\ Len(tasks) > 0

\* C15: generate_daily_plan never returns a block for a completed task; a
\* completed task, a zero-duration task and one open task that fits the
\* window yield exactly one block, for the open task.
C15_NoBlockForCompletedTask ==
    (pc = "done" /\ error = "none") =>
        \A k \in 1..Len(blocks) : ~blocks[k].task.completed

\* C16: generate_daily_plan lays out a task flagged pomodoro=True with
\* Pomodoro splitting: a 50-minute task in a 60-minute window gives two
\* 25-minute blocks.
C16_Applies ==
    /\ pc = "done" /\ error = "none"
    /\ Len(tasks) = 1
    /\ tasks[1].pomodoro /\ ~tasks[1].completed /\ tasks[1].duration = 50
    /\ start_hhmm = <<9, 0>> /\ end_hhmm = <<10, 0>>

C16_PomodoroFlagSplits ==
    C16_Applies =>
        /\ Len(blocks) = 2
        /\ \A k \in 1..Len(blocks) : blocks[k].end - blocks[k].start = 25

StudyPlaced == planner.kind = "study" /\ pc # "idle"
EnergyPlaced == planner.kind = "energy" /\ pc # "idle"

\* position of a task of the input in the list handed to the scheduler
Place(task) == CHOOSE k \in 1..Len(sched_tasks) : sched_tasks[k] = task

SameButDeadline(a, b) ==
    [a EXCEPT !.name = 0, !.has_deadline = FALSE, !.days_left = 0]
        = [b EXCEPT !.name = 0, !.has_deadline = FALSE, !.days_left = 0]

SameButDifficulty(a, b) ==
    [a EXCEPT !.name = 0, !.difficulty = 0] = [b EXCEPT !.name = 0, !.difficulty = 0]

DueToday(task) == task.has_deadline /\ task.days_left = 0
DueTomorrow(task) == task.has_deadline /\ task.days_left = 1
Overdue(task) == task.has_deadline /\ task.days_left < 0

\* C17: of two tasks that differ only in their deadline, the one with the
\* earlier deadline scores at least as high under DeadlinePriority, and a
\* task due today scores strictly higher than one due tomorrow, so
\* StudyPlanner places the due-today task first whatever the input order.
C17_EarlierDeadlineScoresHigher ==
    StudyPlaced =>
        \A a, b \in 1..Len(tasks) :
            (SameButDeadline(tasks[a], tasks[b])
                /\ tasks[a].has_deadline /\ tasks[b].has_deadline
                /\ tasks[a].days_left < tasks[b].days_left) =>
                    /\ DeadlineScore(tasks[a]) >= DeadlineScore(tasks[b])
                    /\ (DueToday(tasks[a]) /\ DueTomorrow(tasks[b])) =>
                           /\ DeadlineScore(tasks[a]) > DeadlineScore(tasks[b])
                           /\ Place(tasks[a]) < Place(tasks[b])

\* C18: DeadlinePriority gives an overdue task the urgency 1.0 of a task due
\* today; two tasks that differ only in being overdue versus due today get
\* identical scores.
C18_OverdueScoresAsDueToday ==
    StudyPlaced =>
        \A a, b \in 1..Len(tasks) :
            (SameButDeadline(tasks[a], tasks[b])
                /\ Overdue(tasks[a]) /\ DueToday(tasks[b])) =>
                    /\ Urgency(tasks[a]) = ScoreScale
                    /\ Urgency(tasks[b]) = ScoreScale
                    /\ DeadlineScore(tasks[a]) = DeadlineScore(tasks[b])

C18_Witness ==
    /\ StudyPlaced /\ pc = "done"
    /\ Len(tasks) = 2
    /\ SameButDeadline(tasks[1], tasks[2])
    /\ tasks[1].has_deadline /\ tasks[1].days_left = -2
    /\ DueToday(tasks[2])
    /\ DurationOf(tasks[1]) > 0

\* C19: in study mode an overdue task is placed before an otherwise
\* identical task due today, whatever the order of the two in the input.
C19_OverdueBeforeDueToday ==
    StudyPlaced =>
        \A a, b \in 1..Len(tasks) :
            (SameButDeadline(tasks[a], tasks[b])
                /\ Overdue(tasks[a]) /\ DueToday(tasks[b])) =>
                    Place(tasks[a]) < Place(tasks[b])

\* C19, as the code has it: in study mode an overdue task and an otherwise
\* identical task due today tie and keep their input order; the overdue
\* task is placed first exactly when it comes first in the input.
C19_OverdueKeepsInputOrder ==
    StudyPlaced =>
        \A a, b \in 1..Len(tasks) :
            (SameButDeadline(tasks[a], tasks[b])
                /\ Overdue(tasks[a]) /\ DueToday(tasks[b])) =>
                    (Place(tasks[a]) < Place(tasks[b]) <=> a < b)

\* the due-today task comes first in the input and is scheduled first
C19_Witness ==
    /\ StudyPlaced /\ pc = "done"
    /\ Len(tasks) = 2
    /\ SameButDeadline(tasks[1], tasks[2])
    /\ DueToday(tasks[1]) /\ Overdue(tasks[2])
    /\ Len(blocks) = 1
    /\ blocks[1].task = tasks[1]

\* C20: EnergyAwarePriority at energy level 1 scores a difficulty-1 task
\* strictly higher than a difficulty-5 task with the same deadline, and at
\* energy level 5 the difficulty-5 task strictly higher; EnergyPlanner
\* places the better-matching task first whatever the input order.
C20_EnergyMatchesDifficulty ==
    EnergyPlaced =>
        \A a, b \in 1..Len(tasks) :
            (SameButDifficulty(tasks[a], tasks[b])
                /\ tasks[a].difficulty = 1 /\ tasks[b].difficulty = 5) =>
                    /\ planner.energy_level = 1 =>
                           /\ EnergyAwareScore(tasks[a]) > EnergyAwareScore(tasks[b])
                           /\ Place(tasks[a]) < Place(tasks[b])
                    /\ planner.energy_level = 5 =>
                           /\ EnergyAwareScore(tasks[b]) > EnergyAwareScore(tasks[a])
                           /\ Place(tasks[b]) < Place(tasks[a])

\* energy 5: the hard task, second in the input, is scheduled first
C20_Witness ==
    /\ EnergyPlaced /\ pc = "done"
    /\ planner.energy_level = 5
    /\ Len(tasks) = 2
    /\ SameButDifficulty(tasks[1], tasks[2])
    /\ tasks[1].difficulty = 1 /\ tasks[2].difficulty = 5
    /\ Len(blocks) = 1
    /\ blocks[1].task = tasks[2]

\* the level and difficulty brought into 1..5
InRange(x) == IF x < 1 THEN 1 ELSE IF x > 5 THEN 5 ELSE x

Distance(x, y) == IF x >= y THEN x - y ELSE y - x

\* the score of a task of difficulty d (already in 1..5) at energy level e,
\* scaled by ScoreScale: 2.5 * (5 - |d - e|) + 3 * urgency
MatchScore(task, d, e) == 3000 * (5 - Distance(d, e)) + 3 * Urgency(task)

\* the score a planner built with level e gives
ScoreBuiltWith(task, e) ==
    MatchScore(task, InRange(DifficultyOf(task)), e)

\* s holds every task of the input once, in descending order of the scores
\* a planner built with level e gives, ties in input order
PlanBuiltWith(s, e) ==
    /\ Len(s) = Len(tasks)
    /\ \A k \in 1..Len(tasks) : \E m \in 1..Len(s) : s[m] = tasks[k]
    /\ \A a, b \in 1..Len(s) :
          a < b =>
              \/ ScoreBuiltWith(s[a], e) > ScoreBuiltWith(s[b], e)
              \/ /\ ScoreBuiltWith(s[a], e) = ScoreBuiltWith(s[b], e)
                 /\ s[a].name < s[b].name

\* C21: an energy level outside 1..5 is no error; EnergyAwarePriority and
\* EnergyPlanner built with any integer level e score and plan exactly as
\* if built with e clamped to 1..5.
C21_EnergyLevelClamped ==
    (pc # "new") =>
        /\ error = "none"
        /\ planner.kind = "energy"
        /\ \A k \in 1..Len(tasks) :
              EnergyAwareScore(tasks[k]) = ScoreBuiltWith(tasks[k], InRange(energy_level))
        /\ (pc # "idle") => PlanBuiltWith(sched_tasks, InRange(energy_level))

\* level 10: the hard task, second in the input, is scheduled first
C21_Witness ==
    /\ pc = "done"
    /\ energy_level = 10
    /\ Len(tasks) = 2
    /\ SameButDifficulty(tasks[1], tasks[2])
    /\ tasks[1].difficulty = 1 /\ tasks[2].difficulty = 5
    /\ Len(blocks) = 1
    /\ blocks[1].task = tasks[2]

\* C22: EnergyAwarePriority clamps the difficulty to 1..5 before scoring; a
\* task of any integer difficulty below 1 scores as the otherwise identical
\* task of difficulty 1, one of difficulty above 5 as that of difficulty 5.
C22_DifficultyClamped ==
    (planner.kind = "energy") =>
        \A k \in 1..Len(tasks) :
            /\ tasks[k].difficulty < 1 =>
                   EnergyAwareScore(tasks[k])
                       = EnergyAwareScore([tasks[k] EXCEPT !.difficulty = 1])
            /\ tasks[k].difficulty > 5 =>
                   EnergyAwareScore(tasks[k])
                       = EnergyAwareScore([tasks[k] EXCEPT !.difficulty = 5])

\* the difficulty the score is computed from
ClampedDifficulty(task) == InRange(DifficultyOf(task))

Mismatch(task) == Distance(ClampedDifficulty(task), planner.energy_level)

MismatchOfOneOutweighed ==
    /\ planner.kind = "energy" /\ pc = "done"
    /\ Len(tasks) = 2
    /\ Mismatch(tasks[1]) = 0 /\ ~tasks[1].has_deadline
    /\ Mismatch(tasks[2]) = 1 /\ DueToday(tasks[2])
    /\ EnergyAwareScore(tasks[2]) > EnergyAwareScore(tasks[1])
    /\ sched_tasks[1] = tasks[2]

\* the object with duration 0, difficulty 3, priority 1 and category None
\* in place of every attribute that is missing, None or no number
Defaulted(obj) ==
    [obj EXCEPT !.duration = IF @.kind = "int" THEN @ ELSE IntValue(0),
                !.difficulty = IF @.kind = "int" THEN @ ELSE IntValue(DefaultDifficulty),
                !.priority = IF @.kind = "int" THEN @ ELSE IntValue(1),
                !.category = IF @.kind = "text" THEN @ ELSE NoneValue]

ValueWithDefaults ==
    CASE strategy = "simple" -> SimpleScore(Defaulted(scored))
      [] strategy = "deadline" -> DeadlineScore(AsTask(Defaulted(scored)))
      [] strategy = "energy" -> EnergyAwareScore(AsTask(Defaulted(scored)))

\* C24: score() of SimplePriority, DeadlinePriority and EnergyAwarePriority
\* never fails on a task whose optional fields are missing, None or
\* non-numeric, and returns the value of the task with the defaults
\* duration 0, difficulty 3, priority 1, category None in their place.
C24_ScoreDefaultsFields ==
    (pc = "scored") =>
        /\ result.raised = "none"
        /\ result.value = ValueWithDefaults

\* the part of C24 the code keeps: missing and None attributes are defaulted
MissingOrNoneDefaulted ==
    (pc = "scored" /\ Raises(strategy, scored) = "none") =>
        /\ result.raised = "none"
        /\ result.value = ValueWithDefaults

\* every block holds one of the caller's task objects
BlocksReferToInput ==
    \A k \in 1..Len(blocks) :
        \E m \in 1..Len(tasks) : blocks[k].task = tasks[m]

\* C25: generate() of the three planners and schedule() of both schedulers
\* leave the caller's task collection, its length, its order and every
\* attribute of every task, unchanged, and the blocks returned refer to the
\* caller's task objects.
C25_TasksUntouched ==
    /\ [][tasks' = tasks]_vars
    /\ []BlocksReferToInput

\* two blocks returned in the reverse of the input order, the input list
\* still in its own order
C25_Witness ==
    /\ pc = "done"
    /\ planner.kind # "none"
    /\ sched_tasks # tasks
    /\ Len(blocks) = 2
    /\ blocks[1].task = tasks[2]
    /\ blocks[2].task = tasks[1]

\* C26: generate() called twice on the same planner with identical tasks,
\* day_start and day_end on the same date returns identical block lists;
\* no state carries over from one call to the next.
C26_SameInputsSamePlan ==
    (pc = "done") =>
        \A k \in 1..Len(returned) : returned[k] = blocks

\* the second call has returned a plan of several blocks
C26_Witness ==
    /\ pc = "done"
    /\ Len(returned) = 1
    /\ Len(blocks) >= 3
    /\ returned[1] = blocks
    /\ sched_tasks # tasks

\* a step in which the session method `op` was called
Calls(op) == clock' # clock /\ call'.op = op

\* C27: FocusSession.rate_focus sets focus_rating to a rating in 1..5; for
\* a rating below 1 or above 5 it raises ValueError and leaves focus_rating
\* and every other field of the session as before the call.
C27_RateFocusValidates ==
    [][Calls("rate_focus") =>
          IF call'.rating \in 1..5
             THEN /\ error' = "none"
                  /\ session' = [session EXCEPT !.focus_rating = call'.rating]
             ELSE /\ error' = "ValueError"
                  /\ session' = session]_vars

\* rate_focus(7) raised after rate_focus(4) had set the rating
C27_Witness ==
    /\ call.op = "rate_focus" /\ call.rating = 7
    /\ error = "ValueError"
    /\ session.focus_rating = 4

\* the check-in flag in effect for the end_session call just made
EffectiveCheckin ==
    IF call'.checkin_habit = "None" THEN session.auto_checkin_habit
    ELSE call'.checkin_habit = "True"

\* C28: under any sequence of end_session, record_distraction, add_note and
\* rate_focus calls, end_time is unset until the first end_session; that
\* call sets it and completes the session's habit exactly when the
\* effective check-in flag (checkin_habit if given, else auto_checkin_habit)
\* is true; later end_session calls change neither end_time nor the habit,
\* so one session checks its habit in at most once.
C28_EndSessionOnce ==
    /\ [](clock = 0 => session.end_time = None)
    /\ [](checkins <= 1)
    /\ [][/\ ~Calls("end_session") =>
               (session'.end_time = session.end_time /\ checkins' = checkins)
          /\ (Calls("end_session") /\ session.end_time = None) =>
               /\ session'.end_time # None
               /\ session.kind = "habit" =>
                      checkins' = IF EffectiveCheckin THEN checkins + 1 ELSE checkins
               /\ session.kind # "habit" => checkins' = checkins
          /\ (Calls("end_session") /\ session.end_time # None) =>
               (session'.end_time = session.end_time /\ checkins' = checkins)]_vars

\* a habit session without auto check-in, ended with checkin_habit=True
\* after other calls and then ended again with checkin_habit=True
C28_Witness ==
    /\ session.kind = "habit" /\ ~session.auto_checkin_habit
    /\ call.op = "end_session" /\ call.checkin_habit = "True"
    /\ session.end_time # None
    /\ session.end_time > 1
    /\ session.end_time < clock
    /\ checkins = 1

\* C29: PomodoroScheduler.schedule terminates and returns a finite block
\* list for every finite task list, every window and every integer
\* work_minutes and break_minutes, work_minutes of zero or less included.
C29_PomodoroTerminates == <>Returned

\* configurations whose while loop ends: every pass uses up task minutes,
\* or uses none and moves the start forward by the break
LoopEnds ==
    \/ scheduler.work_minutes > 0
    \/ scheduler.work_minutes = 0 /\ scheduler.break_minutes > 0

PomodoroTerminatesWhenLoopEnds == LoopEnds => <>Returned

\* a pass of the while loop changes what the loop's tests read
EveryPassMoves ==
    [][(pc = "pom_while" /\ pc' = "pom_while") =>
          <<remaining_minutes', current_start'>> # <<remaining_minutes, current_start>>]_vars

\* how often a task occurs in a list
Occurrences(task, list) == Cardinality({m \in 1..Len(list) : list[m] = task})

\* C30: the sequence BalancedPlanner.generate passes to its scheduler is a
\* permutation of the input: every input task, recovery or not, occurs in
\* it as often as in the input, none dropped, none duplicated, none added,
\* for any number of regular and recovery tasks, none of either included.
C30_BalancedPermutation ==
    Delegated =>
        /\ Len(sched_tasks) = Len(tasks)
        /\ \A k \in 1..Len(tasks) :
              Occurrences(tasks[k], sched_tasks) = Occurrences(tasks[k], tasks)
        /\ \A m \in 1..Len(sched_tasks) :
              Occurrences(sched_tasks[m], tasks) > 0

\* more recovery tasks than the regular tasks leave room for: one is
\* interleaved, the others are appended
C30_Witness ==
    /\ Delegated /\ pc = "done"
    /\ Len(InputRegular) = 3
    /\ Len(InputRecovery) = 3
    /\ IsRecovery(sched_tasks[3])
    /\ IsRecovery(sched_tasks[5]) /\ IsRecovery(sched_tasks[6])

\* no regular task at all, and no recovery task at all
OnlyRecoveryHanded ==
    Delegated /\ Len(InputRegular) = 0 /\ Len(sched_tasks) = 2

OnlyRegularHanded ==
    Delegated /\ Len(InputRecovery) = 0 /\ Len(sched_tasks) = 2

====
